---- MODULE Spec2Model ----
(***************************************************************************)
(* A model of the version-resolution and alias-database engine of unladen  *)
(* (src/src/unladen/versions.py) and of the publish operation that uses it *)
(* (src/src/unladen/filesystem.py), of the command line that calls it     *)
(* (src/src/unladen/cli.py, with the git commands of git.py), and of the   *)
(* injection of the version menu into a page (src/src/unladen/html.py).    *)
(*                                                                         *)
(* Python strings are sequences of one-character strings, so that regular  *)
(* expression matching, template formatting, version normalisation and     *)
(* string comparison are computed character by character as the code and   *)
(* the libraries it calls compute them.                                    *)
(***************************************************************************)
EXTENDS Integers, Sequences, FiniteSets, TLC

VARIABLES
    db,       \* the Database in memory: its versions and aliases dicts
    disk,     \* the snapshot file unladen.json of the target directory
    call,     \* the last call made: its name, arguments and outcome
    pool,     \* the Version records the callers of this run add
    added,    \* history: the last record passed to add_version, by ref
    saved,    \* history: the Database and its history at the last save
    defaults, \* the dicts that are the default arguments of Database()
    shared,   \* whether db.versions is the dict defaults.versions itself
    tree,     \* the directories of the target directory, with their content
    run,      \* main, copy_source_to_target: arguments and local variables
    pc        \* main, copy_source_to_target: the statement it is at

vars ==
    <<db, disk, call, pool, added, saved, defaults, shared, tree, run, pc>>

(***************************************************************************)
(* Characters and strings                                                  *)
(***************************************************************************)

\* The characters of the modelled strings, in code point order.
CodePoints ==
    <<".", "/", "0", "1", "2", "3", "4", "5", "6", "7", "8", "9",
      "a", "b", "c", "d", "e", "f", "g", "h", "i", "j", "k", "l", "m",
      "n", "o", "p", "q", "r", "s", "t", "u", "v", "w", "x", "y", "z">>

Char == {CodePoints[i] : i \in 1..Len(CodePoints)}

Digit == {"0", "1", "2", "3", "4", "5", "6", "7", "8", "9"}

Ord(c) == CHOOSE i \in 1..Len(CodePoints) : CodePoints[i] = c

Min(a, b) == IF a < b THEN a ELSE b

\* Python's str.__lt__: lexicographic comparison by code point.
StrLess(a, b) ==
    \E k \in 1..(Min(Len(a), Len(b)) + 1) :
        /\ \A i \in 1..(k - 1) : a[i] = b[i]
        /\ \/ k > Len(a) /\ k <= Len(b)
           \/ k <= Len(a) /\ k <= Len(b) /\ Ord(a[k]) < Ord(b[k])

\* Optional values: Python's None against a present value.
None == [some |-> FALSE, val |-> <<>>]

Some(x) == [some |-> TRUE, val |-> x]

(***************************************************************************)
(* Regular expressions, as far as the rules of the repository use them: a  *)
(* pattern is a sequence of items; an item is one set of characters with a *)
(* quantifier (exactly one, + or * , both greedy), possibly enclosed in a  *)
(* capture group, or an anchor (^ or $).                                   *)
(***************************************************************************)
Lit(s) == [i \in 1..Len(s) |-> [q |-> "one", set |-> {s[i]}, grp |-> FALSE]]

AnyPlus == <<[q |-> "plus", set |-> Char, grp |-> FALSE]>>

AnyStar == <<[q |-> "star", set |-> Char, grp |-> FALSE]>>

GroupAnyPlus == <<[q |-> "plus", set |-> Char, grp |-> TRUE]>>

ClassPlus(cs) == <<[q |-> "plus", set |-> cs, grp |-> FALSE]>>

GroupClassPlus(cs) == <<[q |-> "plus", set |-> cs, grp |-> TRUE]>>

Bol == <<[q |-> "bol", set |-> {}, grp |-> FALSE]>>

Eol == <<[q |-> "eol", set |-> {}, grp |-> FALSE]>>

\* The length of the longest run of characters of cs in s from position j.
RECURSIVE Run(_, _, _)
Run(cs, s, j) ==
    IF j <= Len(s) /\ s[j] \in cs THEN 1 + Run(cs, s, j + 1) ELSE 0

\* The numbers of characters a quantified item may take from position j.
Takes(it, s, j) == (IF it.q = "plus" THEN 1 ELSE 0)..Run(it.set, s, j)

\* Whether the items i.. of pat match s from position j.
RECURSIVE Matches(_, _, _, _)
Matches(pat, i, s, j) ==
    IF i > Len(pat) THEN TRUE
    ELSE CASE pat[i].q = "bol" -> j = 1 /\ Matches(pat, i + 1, s, j)
           [] pat[i].q = "eol" -> j = Len(s) + 1 /\ Matches(pat, i + 1, s, j)
           [] pat[i].q = "one" ->
                /\ j <= Len(s)
                /\ s[j] \in pat[i].set
                /\ Matches(pat, i + 1, s, j + 1)
           [] OTHER ->
                \E k \in Takes(pat[i], s, j) : Matches(pat, i + 1, s, j + k)

\* What a greedy item takes: the most characters that let the rest match
\* (the matcher tries the longest run first and gives back one at a time).
Greedy(pat, i, s, j) ==
    CHOOSE k \in Takes(pat[i], s, j) :
        /\ Matches(pat, i + 1, s, j + k)
        /\ \A m \in Takes(pat[i], s, j) :
              Matches(pat, i + 1, s, j + m) => m <= k

Capture(it, s, j, k) ==
    IF it.grp THEN <<SubSeq(s, j, j + k - 1)>> ELSE <<>>

\* The groups captured by the items i.. of pat, which match s from j.
RECURSIVE Groups(_, _, _, _)
Groups(pat, i, s, j) ==
    IF i > Len(pat) THEN <<>>
    ELSE CASE pat[i].q \in {"bol", "eol"} -> Groups(pat, i + 1, s, j)
           [] pat[i].q = "one" ->
                Capture(pat[i], s, j, 1) \o Groups(pat, i + 1, s, j + 1)
           [] OTHER ->
                Capture(pat[i], s, j, Greedy(pat, i, s, j))
                    \o Groups(pat, i + 1, s, j + Greedy(pat, i, s, j))

\* re.match(pattern, ref): the pattern has to match at the start of the
\* string, and need not reach its end.
ReMatch(pattern, ref) ==
    IF Matches(pattern, 1, ref, 1)
    THEN [ok |-> TRUE, groups |-> Groups(pattern, 1, ref, 1)]
    ELSE [ok |-> FALSE, groups |-> <<>>]

(***************************************************************************)
(* Templates: str.format with positional fields {0}, {1}, ...              *)
(***************************************************************************)
Text(s) == <<[arg |-> -1, lit |-> s]>>

Field(n) == <<[arg |-> n, lit |-> <<>>]>>

RECURSIVE Format(_, _)
Format(fmt, groups) ==
    IF fmt = <<>> THEN <<>>
    ELSE (IF Head(fmt).arg < 0 THEN Head(fmt).lit
          ELSE groups[Head(fmt).arg + 1])
         \o Format(Tail(fmt), groups)

\* The number of capture groups of a pattern and the number of groups a
\* template needs: a rule is well formed when its template has its groups.
NumGroups(pattern) == Cardinality({i \in 1..Len(pattern) : pattern[i].grp})

WellFormed(rule) ==
    \A i \in 1..Len(rule.fmt) : rule.fmt[i].arg < NumGroups(rule.pattern)

Rule(pattern, fmt) == [pattern |-> pattern, fmt |-> fmt]

(***************************************************************************)
(* versions.py: the rule engine                                            *)
(***************************************************************************)

\* The rule sets of the repository and of its tests.
VERSION_RULES ==
    <<Rule(Lit(<<"r", "e", "f", "s", "/">>) \o AnyPlus \o Lit(<<"/">>)
           \o GroupAnyPlus,
           Field(0))>>

\* ("refs/tags/v[0-9\\.]+", "stable")
StableRule ==
    Rule(Lit(<<"r", "e", "f", "s", "/", "t", "a", "g", "s", "/", "v">>)
         \o ClassPlus(Digit \cup {"."}),
         Text(<<"s", "t", "a", "b", "l", "e">>))

\* ("refs/heads/main", "latest")
LatestRule ==
    Rule(Lit(<<"r", "e", "f", "s", "/", "h", "e", "a", "d", "s", "/",
               "m", "a", "i", "n">>),
         Text(<<"l", "a", "t", "e", "s", "t">>))

\* A faulty variant of ALIAS_RULES: the default rules also hold the rule for latest.
ALIAS_RULES_with_latest == <<LatestRule, StableRule>>

ALIAS_RULES == <<StableRule>>

DEFAULT_NAME_RULES ==
    <<Rule(Lit(<<"r", "e", "f", "s", "/", "h", "e", "a", "d", "s", "/">>)
           \o GroupAnyPlus, Field(0)),
      Rule(Lit(<<"r", "e", "f", "s", "/", "t", "a", "g", "s", "/">>)
           \o GroupAnyPlus, Field(0))>>

\* refs.py
DEFAULT_ALIAS_RULES == <<LatestRule, StableRule>>

\* tests/test_versions.py, test_version_parse_custom
CUSTOM_PATH_RULES ==
    <<Rule(Lit(<<"r", "e", "f", "s", "/", "h", "e", "a", "d", "s", "/">>)
           \o GroupAnyPlus,
           Text(<<"d", "e", "v", "/">>) \o Field(0)),
      Rule(Lit(<<"r", "e", "f", "s", "/", "t", "a", "g", "s", "/">>)
           \o GroupAnyPlus,
           Text(<<"s", "t", "a", "b", "l", "e", "/">>) \o Field(0))>>

\* tests/test_cli.py, test_parse_rule: ^refs/tags/v([0-9]+)\.([0-9]+)\..*$
MINOR_RULES ==
    <<Rule(Bol
           \o Lit(<<"r", "e", "f", "s", "/", "t", "a", "g", "s", "/", "v">>)
           \o GroupClassPlus(Digit) \o Lit(<<".">>) \o GroupClassPlus(Digit)
           \o Lit(<<".">>) \o AnyStar \o Eol,
           Text(<<"v">>) \o Field(0) \o Text(<<".">>) \o Field(1))>>

\* _parse_ref: the output of the first rule, in sequence order, whose
\* pattern matches; None when the loop ends without a match.
RECURSIVE parse_ref_from(_, _, _)
parse_ref_from(ref, rules, i) ==
    IF i > Len(rules) THEN None
    ELSE LET result == ReMatch(rules[i].pattern, ref) IN
         IF result.ok THEN Some(Format(rules[i].fmt, result.groups))
         ELSE parse_ref_from(ref, rules, i + 1)

\* A faulty variant of parse_ref: the loop does not return at the first match, so
\* that the last matching rule decides.
parse_ref_last(ref, rules) ==
    LET hits == {i \in 1..Len(rules) : ReMatch(rules[i].pattern, ref).ok}
    IN  IF hits = {} THEN None
        ELSE LET m == CHOOSE x \in hits : \A y \in hits : y <= x
             IN  Some(Format(rules[m].fmt,
                             ReMatch(rules[m].pattern, ref).groups))

parse_ref(ref, rules) == parse_ref_from(ref, rules, 1)

(***************************************************************************)
(* versions.py: _normalize_version, that is str(packaging.version.Version) *)
(* on the strings that can be written with Char: an optional leading v, a  *)
(* release of dotted numbers, and optional pre-, post- and development     *)
(* release segments, to the end of the string.  Epochs, local versions,    *)
(* upper case and the separators - and _ need characters outside Char.     *)
(***************************************************************************)
StartsWith(s, j, w) ==
    /\ j + Len(w) - 1 <= Len(s)
    /\ SubSeq(s, j, j + Len(w) - 1) = w

\* int(digits) printed again: leading zeros are dropped, "" is 0.
RECURSIVE StripZeros(_)
StripZeros(ds) ==
    IF ds = <<>> THEN <<"0">>
    ELSE IF Len(ds) > 1 /\ Head(ds) = "0" THEN StripZeros(Tail(ds))
    ELSE ds

\* The release [0-9]+(\.[0-9]+)* from position j; each number is printed
\* canonically.  next = j when there is no release.
RECURSIVE ReleaseFrom(_, _)
ReleaseFrom(s, j) ==
    LET n == Run(Digit, s, j) IN
    IF n = 0 THEN [next |-> j, text |-> <<>>]
    ELSE LET seg == StripZeros(SubSeq(s, j, j + n - 1))
             p   == j + n
         IN  IF p + 1 <= Len(s) /\ s[p] = "." /\ s[p + 1] \in Digit
             THEN LET more == ReleaseFrom(s, p + 1)
                  IN  [next |-> more.next,
                       text |-> seg \o <<".">> \o more.text]
             ELSE [next |-> p, text |-> seg]

PreTags ==
    <<<<"p", "r", "e", "v", "i", "e", "w">>, <<"a", "l", "p", "h", "a">>,
      <<"b", "e", "t", "a">>, <<"p", "r", "e">>, <<"r", "c">>,
      <<"a">>, <<"b">>, <<"c">>>>

PostTags == <<<<"p", "o", "s", "t">>, <<"r", "e", "v">>, <<"r">>>>

DevTags == <<<<"d", "e", "v">>>>

PreLetter(tag) ==
    IF Head(tag) = "a" THEN <<"a">>
    ELSE IF Head(tag) = "b" THEN <<"b">>
    ELSE <<"r", "c">>

\* An optional segment  [.]?tag[.]?[0-9]*  from position j, the tags tried
\* longest first.  bare: the segment before ended in a tag without a number,
\* whose optional separator may still be ahead.
Segment(s, j, tags, bare) ==
    LET dots == Run({"."}, s, j)
        j1   == j + dots
        hits == {t \in 1..Len(tags) : StartsWith(s, j1, tags[t])}
    IN  IF hits = {} \/ dots > (IF bare THEN 2 ELSE 1)
        THEN [found |-> FALSE, tag |-> <<>>, num |-> <<>>,
              bare |-> bare, next |-> j]
        ELSE LET t  == CHOOSE x \in hits : \A y \in hits : x <= y
                 j2 == j1 + Len(tags[t])
                 j3 == IF j2 <= Len(s) /\ s[j2] = "." THEN j2 + 1 ELSE j2
                 n  == Run(Digit, s, j3)
             IN  [found |-> TRUE, tag |-> tags[t],
                  num |-> StripZeros(SubSeq(s, j3, j3 + n - 1)),
                  bare |-> n = 0,
                  next |-> IF n = 0 THEN j2 ELSE j3 + n]

normalize_version(version) ==
    LET j0   == IF StartsWith(version, 1, <<"v">>) THEN 2 ELSE 1
        rel  == ReleaseFrom(version, j0)
        pre  == Segment(version, rel.next, PreTags, FALSE)
        post == Segment(version, pre.next, PostTags, pre.bare)
        dev  == Segment(version, post.next, DevTags, post.bare)
        last == IF /\ dev.bare
                   /\ dev.next = Len(version)
                   /\ version[dev.next] = "."
                THEN dev.next + 1 ELSE dev.next
    IN  IF rel.next = j0 \/ last # Len(version) + 1 THEN version
        ELSE rel.text
             \o (IF pre.found THEN PreLetter(pre.tag) \o pre.num ELSE <<>>)
             \o (IF post.found
                 THEN <<".", "p", "o", "s", "t">> \o post.num ELSE <<>>)
             \o (IF dev.found
                 THEN <<".", "d", "e", "v">> \o dev.num ELSE <<>>)

(***************************************************************************)
(* versions.py: Version and parse                                          *)
(***************************************************************************)
Version(ref, version, name, path, active) ==
    [ref |-> ref, version |-> version, name |-> name, path |-> path,
     active |-> active]

NoVersion == Version(<<>>, <<>>, <<>>, <<>>, FALSE)

\* Python truth of an optional rule sequence: None and () are both false.
Truthy(rules) == rules.some /\ rules.val # <<>>

ValueError(field) ==
    [raised |-> "ValueError", field |-> field, value |-> NoVersion]

Returned(v) == [raised |-> "", field |-> "", value |-> v]

\* A faulty variant of parse: the path is not checked for None.
parse_no_path_check(ref, version_rules, name_rules, path_rules) ==
    LET version == parse_ref(ref, version_rules)
        name    == parse_ref(ref, IF Truthy(name_rules) THEN name_rules.val
                                  ELSE version_rules)
        path    == parse_ref(ref, IF Truthy(path_rules) THEN path_rules.val
                                  ELSE version_rules)
    IN  IF ~version.some THEN ValueError("version")
        ELSE IF ~name.some THEN ValueError("name")
        ELSE Returned(Version(ref, normalize_version(version.val),
                              name.val, path.val, TRUE))

\* A faulty variant of parse: the name is resolved with the rules of the path.
parse_name_by_path_rules(ref, version_rules, name_rules, path_rules) ==
    LET version == parse_ref(ref, version_rules)
        name    == parse_ref(ref, IF Truthy(path_rules) THEN path_rules.val
                                  ELSE version_rules)
        path    == parse_ref(ref, IF Truthy(path_rules) THEN path_rules.val
                                  ELSE version_rules)
    IN  IF ~version.some THEN ValueError("version")
        ELSE IF ~name.some THEN ValueError("name")
        ELSE IF ~path.some THEN ValueError("path")
        ELSE Returned(Version(ref, normalize_version(version.val),
                              name.val, path.val, TRUE))

\* A faulty variant of parse: the name is normalised as the version is.
parse_normalized_name(ref, version_rules, name_rules, path_rules) ==
    LET version == parse_ref(ref, version_rules)
        name    == parse_ref(ref, IF Truthy(name_rules) THEN name_rules.val
                                  ELSE version_rules)
        path    == parse_ref(ref, IF Truthy(path_rules) THEN path_rules.val
                                  ELSE version_rules)
    IN  IF ~version.some THEN ValueError("version")
        ELSE IF ~name.some THEN ValueError("name")
        ELSE IF ~path.some THEN ValueError("path")
        ELSE Returned(Version(ref, normalize_version(version.val),
                              normalize_version(name.val), path.val, TRUE))

\* parse: the outcome is a Version, or the ValueError of the first field
\* ("version", "name", "path") that no rule resolves.
parse(ref, version_rules, name_rules, path_rules) ==
    LET version == parse_ref(ref, version_rules)
        name    == parse_ref(ref, IF Truthy(name_rules) THEN name_rules.val
                                  ELSE version_rules)
        path    == parse_ref(ref, IF Truthy(path_rules) THEN path_rules.val
                                  ELSE version_rules)
    IN  IF ~version.some THEN ValueError("version")
        ELSE IF ~name.some THEN ValueError("name")
        ELSE IF ~path.some THEN ValueError("path")
        ELSE Returned(Version(ref, normalize_version(version.val),
                              name.val, path.val, TRUE))

(***************************************************************************)
(* Python dicts keep insertion order: a dict is a sequence of entries with *)
(* distinct keys.                                                          *)
(***************************************************************************)
Entry(k, v) == [key |-> k, val |-> v]

Keys(d) == {d[i].key : i \in 1..Len(d)}

Values(d) == [i \in 1..Len(d) |-> d[i].val]

\* d[k], for k in d
Get(d, k) == d[CHOOSE i \in 1..Len(d) : d[i].key = k].val

\* d[k] = v: a key that is present keeps its place, a new key goes last.
DictSet(d, k, v) ==
    IF k \in Keys(d)
    THEN [i \in 1..Len(d) |-> IF d[i].key = k THEN Entry(k, v) ELSE d[i]]
    ELSE Append(d, Entry(k, v))

\* The mapping a dict stands for; dict equality in Python is equality of
\* these.
Mapping(d) == {<<d[i].key, d[i].val>> : i \in 1..Len(d)}

(***************************************************************************)
(* versions.py: Version.__lt__, Database                                   *)
(***************************************************************************)
\* Version.__eq__ compares the refs.
Version_eq(a, b) == a.ref = b.ref

\* A faulty variant of VersionLess: the comparison a named tuple has without
\* __lt__, field by field from the first field, ref.
VersionLess_tuple(a, b) ==
    \/ StrLess(a.ref, b.ref)
    \/ a.ref = b.ref /\ StrLess(a.version, b.version)

\* Version.__lt__ compares the version strings.
VersionLess(a, b) == StrLess(a.version, b.version)

Database(versions, aliases) == [versions |-> versions, aliases |-> aliases]

\* A faulty variant of add_version: a ref that is present keeps its record.
add_version_keep(self, version) ==
    IF version.ref \in Keys(self.versions) THEN self
    ELSE [self EXCEPT !.versions = Append(@, Entry(version.ref, version))]

\* A faulty variant of add_version: the record is filed under its name.
add_version_by_name(self, version) ==
    [self EXCEPT !.versions = DictSet(@, version.name, version)]

\* A faulty variant of add_version: the aliases are dropped with the add, to
\* be computed anew.
add_version_clear_aliases(self, version) ==
    [versions |-> DictSet(self.versions, version.ref, version),
     aliases  |-> <<>>]

add_version(self, version) ==
    [self EXCEPT !.versions = DictSet(@, version.ref, version)]

\* sorted(vs, reverse=True): descending, and stable, so that records that
\* compare equal keep the order they have in vs.
RECURSIVE InsertDesc(_, _)
InsertDesc(sorted, v) ==
    IF sorted = <<>> THEN <<v>>
    ELSE IF VersionLess(Head(sorted), v) THEN <<v>> \o sorted
    ELSE <<Head(sorted)>> \o InsertDesc(Tail(sorted), v)

RECURSIVE SortedReverse(_)
SortedReverse(vs) ==
    IF vs = <<>> THEN <<>>
    ELSE InsertDesc(SortedReverse(SubSeq(vs, 1, Len(vs) - 1)), vs[Len(vs)])

\* The loop of update_aliases over the sorted versions, from index i.
RECURSIVE AliasLoop(_, _, _, _)
AliasLoop(vs, rules, i, matches) ==
    IF i > Len(vs) THEN matches
    ELSE LET name == parse_ref(vs[i].ref, rules) IN
         IF name.some /\ name.val # <<>> /\ name.val \notin Keys(matches)
         THEN AliasLoop(vs, rules, i + 1,
                        DictSet(matches, name.val, vs[i].ref))
         ELSE AliasLoop(vs, rules, i + 1, matches)

\* A faulty variant of update_aliases: the versions are walked in insertion order.
update_aliases_unsorted(self, rules) ==
    LET rs == IF rules.some THEN rules.val ELSE ALIAS_RULES
    IN  [self EXCEPT !.aliases = AliasLoop(Values(self.versions), rs, 1, <<>>)]

\* A faulty variant of update_aliases: the pass starts from the aliases of before.
update_aliases_keep(self, rules) ==
    LET rs == IF rules.some THEN rules.val ELSE ALIAS_RULES
    IN  [self EXCEPT
           !.aliases = AliasLoop(SortedReverse(Values(self.versions)),
                                 rs, 1, self.aliases)]

\* A faulty variant of update_aliases: an alias is bound to the name of the
\* version, not to its ref.
update_aliases_by_name(self, rules) ==
    LET rs == IF rules.some THEN rules.val ELSE ALIAS_RULES
        found == AliasLoop(SortedReverse(Values(self.versions)), rs, 1, <<>>)
    IN  [self EXCEPT
           !.aliases = [i \in 1..Len(found) |->
                          Entry(found[i].key,
                                Get(self.versions, found[i].val).name)]]

update_aliases(self, rules) ==
    LET rs == IF rules.some THEN rules.val ELSE ALIAS_RULES
    IN  [self EXCEPT
           !.aliases = AliasLoop(SortedReverse(Values(self.versions)),
                                 rs, 1, <<>>)]

(***************************************************************************)
(* versions.py: save and load.  The file holds a JSON document: an object  *)
(* with a list "versions" of objects and an object "aliases".              *)
(***************************************************************************)
Version_save(v) ==
    [ref |-> v.ref, version |-> v.version, name |-> v.name, path |-> v.path,
     active |-> v.active]

\* What a call that can raise gives: the exception, or the value returned.
Raised(exception) == [raised |-> exception, value |-> <<>>]

Result(value) == [raised |-> "", value |-> value]

\* Database.__getitem__: self.versions[ref], KeyError for a ref that is not
\* a key.
Database_getitem(self, ref) ==
    IF ref \in Keys(self.versions) THEN Result(Get(self.versions, ref))
    ELSE Raised("KeyError")

VersionFields == <<"ref", "version", "name", "path", "active">>

\* A faulty variant of Version_load: the active flag is not read.
Version_load_active(data) ==
    IF \E i \in 1..4 : VersionFields[i] \notin DOMAIN data
    THEN Raised("KeyError")
    ELSE Result(Version(data.ref, data.version, data.name, data.path, TRUE))

\* Version.load: data[key] raises KeyError for a key the object lacks.
Version_load(data) ==
    IF \E i \in 1..5 : VersionFields[i] \notin DOMAIN data
    THEN Raised("KeyError")
    ELSE Result(Version(data.ref, data.version, data.name, data.path,
                        data.active))

Database_save(self) ==
    [versions |-> [i \in 1..Len(self.versions) |->
                      Version_save(self.versions[i].val)],
     aliases  |-> self.aliases]

\* {v.ref: v for v in map(Version.load, list)}
RECURSIVE DictOfVersions(_, _)
DictOfVersions(list, d) ==
    IF list = <<>> THEN Result(d)
    ELSE LET v == Version_load(Head(list))
         IN  IF v.raised # "" THEN Raised(v.raised)
             ELSE DictOfVersions(Tail(list),
                                 DictSet(d, v.value.ref, v.value))

\* The file unladen.json: absent, or text that is a JSON document (data), or
\* text that is none (valid = FALSE).
File(data) == [exists |-> TRUE, valid |-> TRUE, data |-> data]

NoFile ==
    [exists |-> FALSE, valid |-> FALSE,
     data |-> [versions |-> <<>>, aliases |-> <<>>]]

\* json.load raises JSONDecodeError for text that is not JSON.
json_load(file) ==
    IF ~file.exists THEN Raised("FileNotFoundError")
    ELSE IF ~file.valid THEN Raised("JSONDecodeError")
    ELSE Result(file.data)

Database_load(file) ==
    LET data == json_load(file) IN
    IF data.raised # "" THEN Raised(data.raised)
    ELSE LET versions == DictOfVersions(IF "versions" \in DOMAIN data.value
                                        THEN data.value.versions ELSE <<>>,
                                        <<>>)
         IN  IF versions.raised # "" THEN Raised(versions.raised)
             ELSE Result(Database(versions.value,
                                  IF "aliases" \in DOMAIN data.value
                                  THEN data.value.aliases ELSE <<>>))

(***************************************************************************)
(* The runs: what the callers add, and with which rules                    *)
(***************************************************************************)
MaxVersions == 3

RefMain == <<"r", "e", "f", "s", "/", "h", "e", "a", "d", "s", "/",
             "m", "a", "i", "n">>

RefTags == <<"r", "e", "f", "s", "/", "t", "a", "g", "s", "/">>

Ref010 == RefTags \o <<"v", "0", ".", "1", ".", "0">>

Ref012 == RefTags \o <<"v", "0", ".", "1", ".", "2">>

Ref001 == RefTags \o <<"v", "0", ".", "0", ".", "1">>

Ref010rc1 == RefTags \o <<"v", "0", ".", "1", ".", "0", "r", "c", "1">>

Ref10 == RefTags \o <<"v", "1", ".", "0">>

Ref01_0 == RefTags \o <<"v", "0", "1", ".", "0">>

\* A build: the ref and the rules the command is run with.  `active` is
\* TRUE for the record parse returns, and FALSE for one a maintainer has
\* switched off in the database file.
Build(ref, version_rules, path_rules, active) ==
    [ref |-> ref, version_rules |-> version_rules,
     path_rules |-> path_rules, active |-> active]

\* The record of a build.
Parsed(b) ==
    [parse(b.ref, b.version_rules, None, b.path_rules).value
        EXCEPT !.active = b.active]

Builds ==
    { \* three release tags and the main branch
      {Build(r, VERSION_RULES, None, TRUE) : r \in {RefMain, Ref010, Ref012,
                                                    Ref001}},
      \* rebuilt versions: other records under the same refs
      {Build(RefMain, VERSION_RULES, None, TRUE),
       Build(RefMain, VERSION_RULES, Some(CUSTOM_PATH_RULES), TRUE),
       Build(Ref012, VERSION_RULES, None, TRUE),
       Build(Ref012, VERSION_RULES, None, FALSE)},
      \* a release, its release candidate, and the main branch
      {Build(r, VERSION_RULES, None, TRUE) : r \in {RefMain, Ref010,
                                                    Ref010rc1}},
      \* tags whose versions normalise to the same string
      {Build(r, VERSION_RULES, None, TRUE) : r \in {Ref10, Ref01_0, Ref001}},
      \* patch releases published under their minor version
      {Build(r, MINOR_RULES, None, TRUE) : r \in {Ref010, Ref012}}
        \cup {Build(RefMain, VERSION_RULES, None, TRUE)} }

\* Each run adds the records of one of these sets.
Pools == {{Parsed(b) : b \in bs} : bs \in Builds}

AliasRuleChoices == {None, Some(<<>>), Some(DEFAULT_ALIAS_RULES)}

(***************************************************************************)
(* The database operations                                                 *)
(***************************************************************************)
\* The default arguments of Database.__init__ are two dicts made once, when
\* the function is defined: every Database() is given these same two objects.
NoDefaults == [versions |-> <<>>, aliases |-> <<>>]

\* What add_version on a Database does to the default dict: it is the dict
\* written to when the Database was made without arguments.
DefaultsAfter(self) ==
    IF shared THEN [defaults EXCEPT !.versions = self.versions] ELSE defaults

Idle == [op |-> "none", n |-> 0]

\* The Database of these runs is made with two dicts of its own.
Init ==
    /\ defaults = NoDefaults
    /\ db = Database(<<>>, <<>>)
    /\ shared = FALSE
    /\ disk = NoFile
    /\ call = [op |-> "Database"]
    /\ pool \in Pools
    /\ added = {}
    /\ saved = [db |-> Database(<<>>, <<>>), added |-> {}]
    /\ tree = {}
    /\ run = Idle
    /\ pc = "idle"

AddVersion(v) ==
    /\ v.ref \in Keys(db.versions) \/ Len(db.versions) < MaxVersions
    /\ db' = add_version(db, v)
    /\ defaults' = DefaultsAfter(db')
    /\ call' = [op |-> "add_version", version |-> v,
                replaced |-> /\ v.ref \in Keys(db.versions)
                             /\ Get(db.versions, v.ref) # v]
    /\ added' = {p \in added : p[1] # v.ref} \cup {<<v.ref, v>>}
    /\ UNCHANGED <<disk, pool, saved, shared, tree, run, pc>>

UpdateAliases(rules) ==
    /\ db' = update_aliases(db, rules)
    /\ call' = [op |-> "update_aliases", rules |-> rules,
                before |-> Keys(db.aliases)]
    /\ UNCHANGED <<disk, pool, added, saved, defaults, shared, tree, run,
                   pc>>

Save ==
    /\ disk' = File(Database_save(db))
    /\ saved' = [db |-> db, added |-> added]
    /\ call' = [op |-> "save"]
    /\ UNCHANGED <<db, pool, added, defaults, shared, tree, run, pc>>

Load ==
    /\ disk.exists
    /\ Database_load(disk).raised = ""
    /\ db' = Database_load(disk).value
    /\ shared' = FALSE
    /\ added' = saved.added
    /\ call' = [op |-> "load", changed |-> db' # db]
    /\ UNCHANGED <<disk, pool, saved, defaults, tree, run, pc>>

Next ==
    \/ \E v \in pool : AddVersion(v)
    \/ \E rules \in AliasRuleChoices : UpdateAliases(rules)
    \/ Save
    \/ Load

Spec == Init /\ [][Next]_vars

(***************************************************************************)
(* Calls of the pure functions _parse_ref and parse                        *)
(***************************************************************************)
MaxRules == 2

RefUnrecognized == <<"u", "n", "/", "r", "e", "c", "o", "g", "n", "i", "z",
                     "e", "d", "/", "r", "e", "f">>

RefFeature == <<"r", "e", "f", "s", "/", "h", "e", "a", "d", "s", "/",
                "f", "e", "a", "t", "u", "r", "e", "/", "x">>

Refs == {RefMain, Ref010, Ref012, Ref001, Ref010rc1, Ref10, Ref01_0,
         RefUnrecognized, RefFeature}

\* Every rule of the rule sets above.  Each is well formed: str.format
\* raises IndexError for a template that names a group its pattern lacks.
BaseRules ==
    {r \in UNION {{rs[i] : i \in 1..Len(rs)} :
                  rs \in {VERSION_RULES, ALIAS_RULES, DEFAULT_NAME_RULES,
                          DEFAULT_ALIAS_RULES, CUSTOM_PATH_RULES,
                          MINOR_RULES}} : WellFormed(r)}

RuleSeqs == UNION {[1..n -> BaseRules] : n \in 0..MaxRules}

VersionRuleChoices == {VERSION_RULES, DEFAULT_NAME_RULES, MINOR_RULES}

OptionalRuleChoices ==
    {None, Some(<<>>), Some(DEFAULT_NAME_RULES), Some(CUSTOM_PATH_RULES),
     Some(MINOR_RULES), Some(ALIAS_RULES)}

\* A run of SpecParse makes one call: its arguments are drawn here, and the
\* call is pending until its action returns.
ParseRefCalls ==
    {[op |-> "_parse_ref", ref |-> ref, rules |-> rules, done |-> FALSE]
       : ref \in Refs, rules \in RuleSeqs}

ParseCalls ==
    {[op |-> "parse", ref |-> ref, version_rules |-> version_rules,
      name_rules |-> name_rules, path_rules |-> path_rules, done |-> FALSE]
       : ref \in Refs, version_rules \in VersionRuleChoices,
         name_rules \in OptionalRuleChoices,
         path_rules \in OptionalRuleChoices}

Ref0100 == RefTags \o <<"v", "0", ".", "1", "0", ".", "0">>

Ref020 == RefTags \o <<"v", "0", ".", "2", ".", "0">>

\* The records compared: those of the runs, and two releases whose minor
\* numbers have one and two digits.
CompareVersions ==
    UNION Pools
      \cup {Parsed(b) : b \in {Build(r, VERSION_RULES, None, TRUE) :
                                 r \in {Ref0100, Ref020}}}

CompareCalls ==
    {[op |-> "compare", a |-> a, b |-> b, done |-> FALSE]
       : a \in CompareVersions, b \in CompareVersions}

InitParse ==
    /\ defaults = NoDefaults
    /\ db = Database(<<>>, <<>>)
    /\ shared = FALSE
    /\ tree = {}
    /\ run = Idle
    /\ pc = "idle"
    /\ disk = NoFile
    /\ call \in ParseRefCalls \cup ParseCalls \cup CompareCalls
    /\ pool = {}
    /\ added = {}
    /\ saved = [db |-> Database(<<>>, <<>>), added |-> {}]

CallParseRef ==
    /\ call.op = "_parse_ref" /\ ~call.done
    /\ call' = [op |-> "_parse_ref", ref |-> call.ref, rules |-> call.rules,
                done |-> TRUE, result |-> parse_ref(call.ref, call.rules)]
    /\ UNCHANGED <<db, disk, pool, added, saved, defaults, shared, tree, run,
                   pc>>

CallParse ==
    /\ call.op = "parse" /\ ~call.done
    /\ call' = [op |-> "parse", ref |-> call.ref,
                version_rules |-> call.version_rules,
                name_rules |-> call.name_rules,
                path_rules |-> call.path_rules,
                done |-> TRUE,
                result |-> parse(call.ref, call.version_rules,
                                 call.name_rules, call.path_rules)]
    /\ UNCHANGED <<db, disk, pool, added, saved, defaults, shared, tree, run,
                   pc>>

\* a == b and a < b
CallCompare ==
    /\ call.op = "compare" /\ ~call.done
    /\ call' = [op |-> "compare", a |-> call.a, b |-> call.b, done |-> TRUE,
                eq |-> Version_eq(call.a, call.b),
                lt |-> VersionLess(call.a, call.b)]
    /\ UNCHANGED <<db, disk, pool, added, saved, defaults, shared, tree, run,
                   pc>>

NextParse == CallParseRef \/ CallParse \/ CallCompare

SpecParse == InitParse /\ [][NextParse]_vars

(***************************************************************************)
(* filesystem.py: copy_source_to_target, the publish operation.  The       *)
(* target directory is the set of the directories in it, each with the     *)
(* content that was copied there; unladen.json is the variable disk.       *)
(***************************************************************************)
MaxPublishes == 2

Slash == <<"/">>

\* path is dir, or is inside dir.
Under(dir, path) == path = dir \/ StartsWith(path, 1, dir \o Slash)

\* Path.exists
Exists(t, path) == \E e \in t : Under(path, e.path)

\* rm_file_or_dir: the path goes with all that is inside it.
rm_file_or_dir(t, path) == {e \in t : ~Under(path, e.path)}

\* shutil.copytree(src, dst), for an existing src and a dst that is absent.
copytree(t, src, dst) ==
    t \cup {[path    |-> dst \o SubSeq(e.path, Len(src) + 1, Len(e.path)),
             content |-> e.content] : e \in {x \in t : Under(src, x.path)}}

\* The source directory of a build: the pages built from the ref, without
\* a version menu.
Source(n, version) == [build |-> n, ref |-> version.ref, menu |-> FALSE]

\* A faulty variant of open_database: a snapshot that does not load is
\* taken for an absent one.
open_database_lenient(file, dflt) ==
    IF file.exists /\ Database_load(file).raised = ""
    THEN [raised |-> "", value |-> Database_load(file).value,
          shared |-> FALSE]
    ELSE [raised |-> "", value |-> Database(<<>>, <<>>), shared |-> FALSE]

\* Load the database if it exists, else Database(): the Database made
\* without arguments holds the default dicts themselves.
open_database(file, dflt) ==
    IF file.exists
    THEN [raised |-> Database_load(file).raised,
          value |-> Database_load(file).value, shared |-> FALSE]
    ELSE [raised |-> "", value |-> Database(dflt.versions, dflt.aliases),
          shared |-> TRUE]

\* The loop over database.aliases.items() from entry i: an alias whose ref
\* the database lacks is skipped, the directory of the others is replaced by
\* a copy of the directory of their version.
RECURSIVE copy_aliases(_, _, _, _)
copy_aliases(database, t, i, skipped) ==
    IF i > Len(database.aliases)
    THEN [raised |-> "", tree |-> t, skipped |-> skipped]
    ELSE IF database.aliases[i].val \notin Keys(database.versions)
    THEN copy_aliases(database, t, i + 1,
                      skipped \cup {database.aliases[i].key})
    ELSE IF ~Exists(rm_file_or_dir(t, database.aliases[i].key),
                    Get(database.versions, database.aliases[i].val).path)
    THEN [raised |-> "FileNotFoundError",
          tree |-> rm_file_or_dir(t, database.aliases[i].key),
          skipped |-> skipped]
    ELSE copy_aliases(
             database,
             copytree(rm_file_or_dir(t, database.aliases[i].key),
                      Get(database.versions, database.aliases[i].val).path,
                      database.aliases[i].key),
             i + 1, skipped)

\* html.render_template looks every alias up with database[ref].
render_template(database) ==
    IF \E i \in 1..Len(database.aliases) :
          database.aliases[i].val \notin Keys(database.versions)
    THEN Raised("KeyError")
    ELSE Result([aliases  |-> Keys(database.aliases),
                 versions |-> Keys(database.versions)])

\* A faulty variant of After: the database is saved as soon as the aliases
\* are recomputed, before the alias directories are copied.
After_save_early(stmt, menu) ==
    CASE stmt = "load"   -> "add"
      [] stmt = "add"    -> "copy"
      [] stmt = "copy"   -> "unlink"
      [] stmt = "unlink" -> "update"
      [] stmt = "update" -> "save"
      [] stmt = "save"   -> "link"
      [] stmt = "link"   -> IF menu THEN "inject" ELSE "done"
      [] stmt = "inject" -> "done"

\* A faulty variant of After: the database is saved as soon as the version
\* is added, before any file is copied.
After_save_after_add(stmt, menu) ==
    CASE stmt = "load"   -> "add"
      [] stmt = "add"    -> "save"
      [] stmt = "save"   -> "copy"
      [] stmt = "copy"   -> "unlink"
      [] stmt = "unlink" -> "update"
      [] stmt = "update" -> "link"
      [] stmt = "link"   -> IF menu THEN "inject" ELSE "done"
      [] stmt = "inject" -> "done"

\* The statements of copy_source_to_target in the order they are written:
\* the statement that follows stmt.
After(stmt, menu) ==
    CASE stmt = "load"   -> "add"
      [] stmt = "add"    -> "copy"
      [] stmt = "copy"   -> "unlink"
      [] stmt = "unlink" -> "update"
      [] stmt = "update" -> "link"
      [] stmt = "link"   -> "save"
      [] stmt = "save"   -> IF menu THEN "inject" ELSE "done"
      [] stmt = "inject" -> "done"

\* cli.py: the value of an option --alias-rule is a tuple of mappings
\* {"from": ..., "to": ...}, the empty tuple when the option is not given.
RuleOption(rule) == [from |-> rule.pattern, to |-> rule.fmt]

parse_rule(value) ==
    [i \in 1..Len(value) |-> Rule(value[i].from, value[i].to)]

AliasRuleOptions ==
    {<<>>, <<RuleOption(LatestRule), RuleOption(StableRule)>>}

\* tests/test_versions.py, test_version_load
V001 ==
    [ref     |-> RefTags \o <<"v", "0", ".", "0", ".", "1">>,
     version |-> <<"0", ".", "0", ".", "1">>,
     name    |-> <<"v", "0", ".", "0", ".", "1">>,
     path    |-> <<"s", "t", "a", "b", "l", "e", "/",
                   "v", "0", ".", "0", ".", "1">>]

V020 ==
    [ref     |-> RefTags \o <<"v", "0", ".", "2", ".", "0">>,
     version |-> <<"0", ".", "2", ".", "0">>,
     name    |-> <<"v", "0", ".", "2", ".", "0">>,
     path    |-> <<"v", "0", ".", "2", ".", "0">>]

RefGone == <<"r", "e", "f", "s", "/", "h", "e", "a", "d", "s", "/",
             "g", "o", "n", "e">>

Published(v) == [path |-> v.path, content |-> Source(0, v)]

\* The target directories a publish can be pointed at, beside the one of
\* the publish before: an empty directory, and directories whose snapshot
\* was not written by save.
Targets ==
    { \* a new directory
      [disk |-> NoFile, tree |-> {}],
      \* a snapshot written by hand, its entry without the field active
      [disk |-> File([versions |-> <<V020>>, aliases |-> <<>>]),
       tree |-> {Published(V020)}],
      \* a snapshot that is not JSON: a file cut short
      [disk |-> [exists |-> TRUE, valid |-> FALSE,
                 data |-> [versions |-> <<>>, aliases |-> <<>>]],
       tree |-> {Published(V020)}],
      \* a snapshot with two entries of one ref, a version published under
      \* stable/, and an alias of a ref that has no entry
      [disk |-> File([versions |-> <<[V020 EXCEPT !.path = <<"o", "l", "d">>]
                                       @@ [active |-> TRUE],
                                     V020 @@ [active |-> FALSE],
                                     V001 @@ [active |-> TRUE]>>,
                      aliases  |-> <<Entry(<<"l", "a", "t", "e", "s", "t">>,
                                           RefGone)>>]),
       tree |-> {Published(V020), Published(V001)}] }

\* The target of a publish: the directory as the publish before left it, or
\* another directory.
TargetChoices ==
    {[fresh |-> FALSE, disk |-> NoFile, tree |-> {}]}
      \cup {[fresh |-> TRUE, disk |-> t.disk, tree |-> t.tree] : t \in Targets}

InitPublish ==
    /\ defaults = NoDefaults
    /\ db = Database(<<>>, <<>>)
    /\ shared = FALSE
    /\ disk = NoFile
    /\ call = [op |-> "Database"]
    /\ pool \in Pools
    /\ added = {}
    /\ saved = [db |-> Database(<<>>, <<>>), added |-> {}]
    /\ tree = {}
    /\ run = Idle
    /\ pc = "idle"

\* The call copy_source_to_target(version=..., alias_rules=...,
\* include_version_menu=...): it starts at its first statement.
Called(version, alias_rules, menu, via, target) ==
    /\ pc = "idle"
    /\ run.n < MaxPublishes
    /\ disk' = IF target.fresh THEN target.disk ELSE disk
    /\ tree' = IF target.fresh THEN target.tree ELSE tree
    /\ run' = [op |-> "copy_source_to_target", n |-> run.n + 1,
               version |-> version, alias_rules |-> alias_rules,
               include_version_menu |-> menu, via |-> via,
               before |-> [disk |-> disk', tree |-> tree'],
               events |-> <<"parse">>, raised |-> "", skipped |-> {}]
    /\ pc' = "load"

\* cli.py, main with --target: a new process, in which the ref is parsed and
\* copy_source_to_target called with the rules of --alias-rule as they are.
Main(version, alias_option, no_version_dropdown, target) ==
    /\ Called(version, Some(parse_rule(alias_option)),
              ~no_version_dropdown, "cli", target)
    /\ defaults' = NoDefaults
    /\ UNCHANGED <<db, shared, call, pool, added, saved>>

\* A call of copy_source_to_target by a program that imports it, as the
\* tests do: the process goes on.
CopySourceToTarget(version, alias_rules, menu, target) ==
    /\ Called(version, alias_rules, menu, "api", target)
    /\ UNCHANGED <<db, shared, defaults, call, pool, added, saved>>

\* The statement at pc is done: the next one follows.
Done(stmt) ==
    /\ run' = [run EXCEPT !.events = Append(@, stmt)]
    /\ pc' = After(stmt, run.include_version_menu)

\* The statement at pc raised: the exception leaves copy_source_to_target.
Raise(stmt, exception) ==
    /\ run' = [run EXCEPT !.events = Append(@, stmt), !.raised = exception]
    /\ pc' = "failed"

LoadDatabase ==
    /\ pc = "load"
    /\ IF open_database(disk, defaults).raised # ""
       THEN /\ Raise("load", open_database(disk, defaults).raised)
            /\ UNCHANGED <<db, shared>>
       ELSE /\ db' = open_database(disk, defaults).value
            /\ shared' = open_database(disk, defaults).shared
            /\ Done("load")
    /\ UNCHANGED <<disk, tree, defaults, call, pool, added, saved>>

AddToDatabase ==
    /\ pc = "add"
    /\ db' = add_version(db, run.version)
    /\ defaults' = DefaultsAfter(db')
    /\ Done("add")
    /\ UNCHANGED <<disk, tree, shared, call, pool, added, saved>>

\* The directory of the version is removed and the source copied there;
\* shutil.copytree raises OSError when it cannot write.
CopyFiles ==
    /\ pc = "copy"
    /\ \/ /\ tree' = rm_file_or_dir(tree, run.version.path)
                       \cup {[path |-> run.version.path,
                              content |-> Source(run.n, run.version)]}
          /\ Done("copy")
       \/ /\ tree' = rm_file_or_dir(tree, run.version.path)
          /\ Raise("copy", "OSError")
    /\ UNCHANGED <<db, disk, shared, defaults, call, pool, added, saved>>

RemoveAliases ==
    /\ pc = "unlink"
    /\ tree' = {e \in tree : \A name \in Keys(db.aliases) :
                                ~Under(name, e.path)}
    /\ Done("unlink")
    /\ UNCHANGED <<db, disk, shared, defaults, call, pool, added, saved>>

RecomputeAliases ==
    /\ pc = "update"
    /\ db' = update_aliases(db, run.alias_rules)
    /\ Done("update")
    /\ UNCHANGED <<disk, tree, shared, defaults, call, pool, added, saved>>

CopyAliases ==
    /\ pc = "link"
    /\ tree' = copy_aliases(db, tree, 1, {}).tree
    /\ IF copy_aliases(db, tree, 1, {}).raised # ""
       THEN Raise("link", copy_aliases(db, tree, 1, {}).raised)
       ELSE /\ run' = [run EXCEPT
                         !.events = Append(@, "link"),
                         !.skipped = copy_aliases(db, tree, 1, {}).skipped]
            /\ pc' = After("link", run.include_version_menu)
    /\ UNCHANGED <<db, disk, shared, defaults, call, pool, added, saved>>

SaveDatabase ==
    /\ pc = "save"
    /\ disk' = File(Database_save(db))
    /\ Done("save")
    /\ UNCHANGED <<db, tree, shared, defaults, call, pool, added, saved>>

\* The menu is rendered, and written into the pages of the version.
InjectMenu ==
    /\ pc = "inject"
    /\ IF render_template(db).raised # ""
       THEN /\ Raise("inject", render_template(db).raised)
            /\ UNCHANGED tree
       ELSE /\ tree' = {IF Under(run.version.path, e.path)
                        THEN [e EXCEPT !.content.menu = TRUE] ELSE e
                          : e \in tree}
            /\ Done("inject")
    /\ UNCHANGED <<db, disk, shared, defaults, call, pool, added, saved>>

\* copy_source_to_target returns, or its exception reaches the caller: its
\* local variables are no more.
Return ==
    /\ pc \in {"done", "failed"}
    /\ pc' = "idle"
    /\ run' = [op |-> "none", n |-> run.n]
    /\ db' = Database(<<>>, <<>>)
    /\ shared' = FALSE
    /\ UNCHANGED <<disk, tree, defaults, call, pool, added, saved>>

NextPublish ==
    \/ \E version \in pool, alias_option \in AliasRuleOptions,
          no_version_dropdown \in BOOLEAN, target \in TargetChoices :
          Main(version, alias_option, no_version_dropdown, target)
    \/ \E version \in pool, alias_rules \in AliasRuleChoices,
          menu \in BOOLEAN, target \in TargetChoices :
          CopySourceToTarget(version, alias_rules, menu, target)
    \/ LoadDatabase
    \/ AddToDatabase
    \/ CopyFiles
    \/ RemoveAliases
    \/ RecomputeAliases
    \/ CopyAliases
    \/ SaveDatabase
    \/ InjectMenu
    \/ Return

SpecPublish == InitPublish /\ [][NextPublish]_vars

(***************************************************************************)
(* git.py and cli.py: a run of the command line.  The outcome of a git     *)
(* command is an input of the run: codes gives the return code of each     *)
(* command that the run may make.                                          *)
(***************************************************************************)
ReturnCodes == {0, 1}

Cmd(args, check) == [args |-> args, check |-> check]

\* Git.run, one command after the other: a command that is checked and
\* returns non-zero raises RuntimeError, and those after it are not run.
\* failed lists the commands that ran and returned non-zero.
Git_run(cmds, codes) ==
    LET raising == {i \in 1..Len(cmds) :
                      cmds[i].check /\ codes[cmds[i].args] # 0}
        last    == IF raising = {} THEN Len(cmds)
                   ELSE CHOOSE i \in raising : \A j \in raising : i <= j
    IN  [raised |-> IF raising = {} THEN "" ELSE "RuntimeError",
         failed |-> SelectSeq(SubSeq(cmds, 1, last),
                              LAMBDA c : codes[c.args] # 0)]

\* Two parts of a method, the second run when the first did not raise.
Then(first, second) ==
    IF first.raised # "" THEN first
    ELSE [raised |-> second.raised, failed |-> first.failed \o second.failed]

get_sha(codes) == Git_run(<<Cmd("rev-parse", FALSE)>>, codes)

\* get_ref raises RuntimeError itself when neither command gives a ref.
get_ref(codes) ==
    IF codes["symbolic-ref"] = 0
    THEN Git_run(<<Cmd("symbolic-ref", FALSE)>>, codes)
    ELSE [raised |-> IF codes["describe"] # 0 THEN "RuntimeError" ELSE "",
          failed |-> Git_run(<<Cmd("symbolic-ref", FALSE),
                               Cmd("describe", FALSE)>>, codes).failed]

init_repo(codes) ==
    Git_run(<<Cmd("init", TRUE), Cmd("config user.name", TRUE),
              Cmd("config user.email", TRUE),
              Cmd("config init.defaultBranch", FALSE)>>, codes)

checkout_orphan(codes) ==
    Git_run(<<Cmd("checkout --orphan", TRUE),
              Cmd("commit --allow-empty", TRUE)>>, codes)

checkout_or_init_repo(codes) ==
    Then(init_repo(codes),
    Then(Git_run(<<Cmd("remote add", TRUE), Cmd("fetch", TRUE),
                   Cmd("checkout -b", FALSE)>>, codes),
         IF codes["checkout -b"] # 0 THEN checkout_orphan(codes)
         ELSE [raised |-> "", failed |-> <<>>]))

push_to_repo(force, codes) ==
    Then(Git_run(<<Cmd("add", TRUE), Cmd("diff --cached", FALSE)>>, codes),
         IF codes["diff --cached"] = 0 THEN [raised |-> "", failed |-> <<>>]
         ELSE IF force
         THEN Git_run(<<Cmd("commit --amend", TRUE), Cmd("push -f", TRUE)>>,
                      codes)
         ELSE Git_run(<<Cmd("commit", TRUE), Cmd("push", TRUE)>>, codes))

CheckoutCommands ==
    {"init", "config user.name", "config user.email",
     "config init.defaultBranch", "remote add", "fetch", "checkout -b",
     "checkout --orphan", "commit --allow-empty"}

PushCommands ==
    {"add", "diff --cached", "commit", "commit --amend", "push", "push -f"}

\* The command lines: the argument source and the options --target, --repo
\* and --sha are given or not; the refs of --ref, one of them invalid;
\* --force, --no-version-dropdown, --version-rule and --alias-rule.
CommandLines ==
    [source : BOOLEAN, target : BOOLEAN, repo : BOOLEAN,
     ref : {None, Some(Ref010), Some(RefTags)},
     sha : BOOLEAN, force : BOOLEAN, no_version_dropdown : BOOLEAN,
     version_rules :
         {<<>>, [i \in 1..Len(MINOR_RULES) |-> RuleOption(MINOR_RULES[i])]},
     alias_rules : AliasRuleOptions]

\* Before the run: the documentation published so far, in the directory of
\* --target or on the branch of --repo.
InitMain ==
    /\ defaults = NoDefaults
    /\ db = Database(<<>>, <<>>)
    /\ shared = FALSE
    /\ \E t \in Targets : disk = t.disk /\ tree = t.tree
    /\ call = [op |-> "Database"]
    /\ pool = {}
    /\ added = {}
    /\ saved = [db |-> Database(<<>>, <<>>), added |-> {}]
    /\ run = Idle
    /\ pc = "idle"

\* main is entered: click.BadOptionUsage (exit code 2) when source is
\* missing or neither --repo nor --target is given.
Invoke(argv) ==
    /\ pc = "idle"
    /\ run.op = "none"
    /\ run' = [op |-> "main", n |-> 1, argv |-> argv, ref |-> argv.ref,
               version |-> NoVersion,
               alias_rules |-> Some(parse_rule(argv.alias_rules)),
               include_version_menu |-> ~argv.no_version_dropdown,
               via |-> "cli", before |-> [disk |-> disk, tree |-> tree],
               events |-> <<>>, raised |-> "", skipped |-> {},
               git |-> <<>>, errors |-> <<>>,
               exit_code |-> IF ~argv.source \/ ~(argv.repo \/ argv.target)
                             THEN 2 ELSE 0]
    /\ pc' = IF ~argv.source \/ ~(argv.repo \/ argv.target)
             THEN "exited" ELSE "get_ref"
    /\ UNCHANGED <<db, disk, tree, shared, defaults, call, pool, added, saved>>

\* if not ref: ref = source_repo.get_ref().  Its RuntimeError is not
\* caught: the process ends with a traceback and exit code 1.
GetRef ==
    /\ pc = "get_ref"
    /\ IF run.ref.some
       THEN /\ run' = run
            /\ pc' = "parse"
       ELSE \E codes \in [{"symbolic-ref", "describe"} -> ReturnCodes],
               stdout \in {RefMain, <<"v", "0", ".", "1", ".", "0">>} :
              IF get_ref(codes).raised # ""
              THEN /\ run' = [run EXCEPT
                                !.git = @ \o get_ref(codes).failed,
                                !.errors = Append(@, get_ref(codes).raised),
                                !.exit_code = 1]
                   /\ pc' = "exited"
              ELSE /\ run' = [run EXCEPT
                                !.git = @ \o get_ref(codes).failed,
                                !.ref = Some(stdout)]
                   /\ pc' = "parse"
    /\ UNCHANGED <<db, disk, tree, shared, defaults, call, pool, added, saved>>

\* versions.parse with the rules of the options, VERSION_RULES when no
\* --version-rule is given; ValueError becomes click.BadOptionUsage.
ParseRef ==
    /\ pc = "parse"
    /\ LET version_rules == parse_rule(run.argv.version_rules)
           parsed == parse(run.ref.val,
                           IF version_rules # <<>> THEN version_rules
                           ELSE VERSION_RULES,
                           None, None)
       IN  IF parsed.raised # ""
           THEN /\ run' = [run EXCEPT !.errors = Append(@, parsed.raised),
                                      !.exit_code = 2]
                /\ pc' = "exited"
           ELSE /\ run' = [run EXCEPT !.version = parsed.value,
                                      !.events = <<"parse">>]
                /\ pc' = "get_sha"
    /\ UNCHANGED <<db, disk, tree, shared, defaults, call, pool, added, saved>>

\* if not sha: sha = source_repo.get_sha(); then the branch on target.
GetSha ==
    /\ pc = "get_sha"
    /\ IF run.argv.sha
       THEN run' = run
       ELSE \E codes \in [{"rev-parse"} -> ReturnCodes] :
              run' = [run EXCEPT !.git = @ \o get_sha(codes).failed]
    /\ pc' = IF run.argv.target THEN "load" ELSE "checkout"
    /\ UNCHANGED <<db, disk, tree, shared, defaults, call, pool, added, saved>>

\* --repo: the temporary directory holds the branch when it was checked
\* out, and nothing otherwise.  A RuntimeError of checkout_or_init_repo is
\* caught, printed, and the run goes on.
CheckoutOrInitRepo ==
    /\ pc = "checkout"
    /\ \E codes \in [CheckoutCommands -> ReturnCodes] :
         LET out == checkout_or_init_repo(codes)
             checked_out == out.raised = "" /\ codes["checkout -b"] = 0
         IN  /\ disk' = IF checked_out THEN disk ELSE NoFile
             /\ tree' = IF checked_out THEN tree ELSE {}
             /\ run' = [run EXCEPT
                          !.git = @ \o out.failed,
                          !.errors = IF out.raised # ""
                                     THEN Append(@, out.raised) ELSE @,
                          !.before = [disk |-> disk', tree |-> tree']]
    /\ pc' = "load"
    /\ UNCHANGED <<db, shared, defaults, call, pool, added, saved>>

\* --repo: push_to_repo after the copy; its RuntimeError is caught and the
\* process ends by ctx.exit(1).
PushToRepo ==
    /\ pc = "done"
    /\ ~run.argv.target
    /\ \E codes \in [PushCommands -> ReturnCodes] :
         LET out == push_to_repo(run.argv.force, codes)
         IN  run' = [run EXCEPT
                       !.git = @ \o out.failed,
                       !.errors = IF out.raised # ""
                                  THEN Append(@, out.raised) ELSE @,
                       !.exit_code = IF out.raised # "" THEN 1 ELSE 0]
    /\ pc' = "exited"
    /\ UNCHANGED <<db, disk, tree, shared, defaults, call, pool, added, saved>>

\* main returns after the copy into --target (exit code 0), or an exception
\* of copy_source_to_target ends the process (exit code 1).
Exit ==
    /\ \/ pc = "done" /\ run.argv.target
       \/ pc = "failed"
    /\ run' = [run EXCEPT
                 !.errors = IF pc = "failed" THEN Append(@, run.raised) ELSE @,
                 !.exit_code = IF pc = "failed" THEN 1 ELSE 0]
    /\ pc' = "exited"
    /\ UNCHANGED <<db, disk, tree, shared, defaults, call, pool, added, saved>>

NextMain ==
    \/ \E argv \in CommandLines : Invoke(argv)
    \/ GetRef
    \/ ParseRef
    \/ GetSha
    \/ CheckoutOrInitRepo
    \/ LoadDatabase
    \/ AddToDatabase
    \/ CopyFiles
    \/ RemoveAliases
    \/ RecomputeAliases
    \/ CopyAliases
    \/ SaveDatabase
    \/ InjectMenu
    \/ PushToRepo
    \/ Exit

SpecMain == InitMain /\ [][NextMain]_vars

(***************************************************************************)
(* html.py: inject_into_html.  A document is what the parser makes of it:  *)
(* whether it has an html element, and the elements of its head and of its *)
(* body in document order, None for a head or body that is absent.  The    *)
(* text of an element is a sequence of pieces; tag.string is None for an   *)
(* element without text.                                                   *)
(***************************************************************************)
MaxElements == 2

MaxInjections == 2

Marker == "/* unladen-injected */"

Element(tag, class, string) == [tag |-> tag, class |-> class, string |-> string]

Document(html, head, body) == [html |-> html, head |-> head, body |-> body]

\* tree.select(".unladen-injected")
IsInjected(tag) == "unladen-injected" \in tag.class

\* "/* unladen-injected */" in tag.string
HasMarker(string) == \E i \in 1..Len(string) : string[i] = Marker

\* The style element that is added: the marker, then the style sheet.
InjectedStyle(version_style) ==
    Element("style", {}, Some(<<Marker>> \o version_style))

\* The rendered menu: one div of class unladen-injected.
VersionMenu ==
    <<Element("div", {"unladen-injected"}, Some(<<"versions">>))>>

inject_into_html(html, version_style, version_menu) ==
    IF ~html.html \/ ~html.head.some \/ ~html.body.some THEN Result(html)
    ELSE LET kept(tags) == SelectSeq(tags, LAMBDA tag : ~IsInjected(tag))
             styles(tags) == SelectSeq(tags, LAMBDA tag : tag.tag = "style")
             plain(tags) ==
                 SelectSeq(tags, LAMBDA tag : ~(/\ tag.tag = "style"
                                                /\ HasMarker(tag.string.val)))
             found == styles(kept(html.head.val)) \o styles(kept(html.body.val))
             head  == plain(kept(html.head.val))
             body  == plain(kept(html.body.val))
         IN  IF \E i \in 1..Len(found) : ~found[i].string.some
             THEN Raised("TypeError")
             ELSE Result(Document(
                      TRUE,
                      Some(IF version_menu.some /\ Truthy(version_style)
                           THEN Append(head, InjectedStyle(version_style.val))
                           ELSE head),
                      Some(IF version_menu.some THEN body \o version_menu.val
                           ELSE body)))

\* The elements of the documents: those of tests/test_html.py, and a style
\* element without text.
HeadElements ==
    {Element("title", {}, Some(<<"test">>)),
     Element("style", {}, Some(<<"div {}">>)),
     Element("style", {}, Some(<<Marker>>)),
     Element("style", {}, Some(<<"p {}", Marker>>)),
     Element("style", {}, None)}

BodyElements ==
    {Element("div", {"unladen-injected"}, None),
     Element("div", {"test1"}, Some(<<"1">>)),
     Element("div", {"test2"}, Some(<<"2">>))}

Elements(set) ==
    {None} \cup {Some(tags) :
                    tags \in UNION {[1..n -> set] : n \in 0..MaxElements}}

Documents ==
    {Document(html, head, body) :
       html \in BOOLEAN, head \in Elements(HeadElements),
       body \in Elements(BodyElements)}

\* A document is read from its page; each injection is written back to it.
InitInject ==
    /\ defaults = NoDefaults
    /\ db = Database(<<>>, <<>>)
    /\ shared = FALSE
    /\ tree = {}
    /\ run = Idle
    /\ pc = "idle"
    /\ disk = NoFile
    /\ \E html \in Documents :
         call = [op |-> "inject_into_html", n |-> 0, source |-> html,
                 html |-> html, version_style |-> None,
                 version_menu |-> None, raised |-> ""]
    /\ pool = {}
    /\ added = {}
    /\ saved = [db |-> Database(<<>>, <<>>), added |-> {}]

InjectIntoHtml(version_style, version_menu) ==
    /\ call.op = "inject_into_html"
    /\ call.raised = ""
    /\ call.n < MaxInjections
    /\ LET txt == inject_into_html(call.html, version_style, version_menu)
       IN  call' = [call EXCEPT
                      !.n = @ + 1,
                      !.version_style = version_style,
                      !.version_menu = version_menu,
                      !.raised = txt.raised,
                      !.html = IF txt.raised = "" THEN txt.value ELSE @]
    /\ UNCHANGED <<db, disk, pool, added, saved, defaults, shared, tree, run,
                   pc>>

NextInject ==
    \E version_style \in {None, Some(<<>>), Some(<<".versions {}">>)},
       version_menu \in {None, Some(VersionMenu)} :
       InjectIntoHtml(version_style, version_menu)

SpecInject == InitInject /\ [][NextInject]_vars

(***************************************************************************)
(* Properties.  What a rule sequence yields is stated here on its own, by  *)
(* the set of the rules that match, and not by the loop of _parse_ref.     *)
(***************************************************************************)
MatchingRules(ref, rules) ==
    {i \in 1..Len(rules) : ReMatch(rules[i].pattern, ref).ok}

Output(ref, rule) == Format(rule.fmt, ReMatch(rule.pattern, ref).groups)

FirstOutput(ref, rules) ==
    LET hits == MatchingRules(ref, rules)
    IN  IF hits = {} THEN None
        ELSE Some(Output(ref, rules[CHOOSE m \in hits :
                                       \A i \in hits : m <= i]))

Stable == <<"s", "t", "a", "b", "l", "e">>

Latest == <<"l", "a", "t", "e", "s", "t">>

\* C1: _parse_ref returns the output of the first rule, in sequence order,
\* that matches the ref, whatever later rules match, and returns None exactly
\* when no rule matches (so always for the empty sequence).
C1_FirstMatchWins ==
    (call.op = "_parse_ref" /\ call.done) =>
        /\ call.result = FirstOutput(call.ref, call.rules)
        /\ call.result = None <=> MatchingRules(call.ref, call.rules) = {}

\* A call with two matching rules of different outputs returned the first.
C1_Witness ==
    /\ call.op = "_parse_ref" /\ call.done
    /\ \E i, j \in MatchingRules(call.ref, call.rules) :
          /\ i < j
          /\ Output(call.ref, call.rules[i]) # Output(call.ref, call.rules[j])
          /\ call.result = Some(Output(call.ref, call.rules[i]))

\* The rules parse resolves a name or a path with: version_rules when the
\* rule set is omitted (or is empty, which Python takes for omitted).
RulesFor(rules, version_rules) ==
    IF rules.some /\ rules.val # <<>> THEN rules.val ELSE version_rules

Resolves(ref, rules) == MatchingRules(ref, rules) # {}

\* C7: parse raises ValueError whenever one of the three resolutions
\* (version, name, path) finds no matching rule, and returns a Version only
\* when all three resolve; un/recognized/ref is rejected by the default rules.
C7_InvalidRef ==
    (call.op = "parse" /\ call.done) =>
        LET all == /\ Resolves(call.ref, call.version_rules)
                   /\ Resolves(call.ref, RulesFor(call.name_rules,
                                                  call.version_rules))
                   /\ Resolves(call.ref, RulesFor(call.path_rules,
                                                  call.version_rules))
        IN  /\ ~all => call.result.raised = "ValueError"
            /\ call.result.raised = "" => all
            /\ call.result.raised \in {"", "ValueError"}
            /\ (/\ call.ref = RefUnrecognized
                /\ call.version_rules = VERSION_RULES
                /\ call.name_rules = None
                /\ call.path_rules = None) => call.result.raised = "ValueError"

\* The version and the name resolve and the path alone does not: ValueError.
C7_Witness ==
    /\ call.op = "parse" /\ call.done
    /\ Resolves(call.ref, call.version_rules)
    /\ Resolves(call.ref, RulesFor(call.name_rules, call.version_rules))
    /\ ~Resolves(call.ref, RulesFor(call.path_rules, call.version_rules))
    /\ call.result.raised = "ValueError"

\* C8: in parse an omitted name_rules or path_rules is replaced by
\* version_rules, and the rule sets are independent: the version is resolved
\* with version_rules and the name with its own rules, whatever path_rules is.
C8_RuleFallback ==
    (call.op = "parse" /\ call.done /\ call.result.raised = "") =>
        LET v == call.result.value
            byVersionRules == FirstOutput(call.ref, call.version_rules).val
        IN  /\ call.name_rules = None => v.name = byVersionRules
            /\ call.path_rules = None => v.path = byVersionRules
            /\ v.version = normalize_version(byVersionRules)
            /\ v.name = FirstOutput(call.ref,
                                    RulesFor(call.name_rules,
                                             call.version_rules)).val
            /\ v.path = FirstOutput(call.ref,
                                    RulesFor(call.path_rules,
                                             call.version_rules)).val

\* refs/heads/main with the custom path rules alone: path dev/main, while the
\* name is main, as the version rules give it.
C8_Witness ==
    /\ call.op = "parse" /\ call.done /\ call.result.raised = ""
    /\ call.ref = RefMain
    /\ call.version_rules = VERSION_RULES
    /\ call.name_rules = None
    /\ call.path_rules = Some(CUSTOM_PATH_RULES)
    /\ call.result.value.name = <<"m", "a", "i", "n">>
    /\ call.result.value.path = <<"d", "e", "v", "/", "m", "a", "i", "n">>

\* A release tag: refs/tags/v and then digits and dots to the end; a
\* pre-release tag: a release tag and then a suffix that is not numeric.
TagSuffix(ref) == SubSeq(ref, Len(RefTags) + 2, Len(ref))

IsReleaseTag(ref) ==
    /\ StartsWith(ref, 1, RefTags \o <<"v">>)
    /\ TagSuffix(ref) # <<>>
    /\ Run(Digit \cup {"."}, TagSuffix(ref), 1) = Len(TagSuffix(ref))

IsPreReleaseTag(ref) ==
    /\ StartsWith(ref, 1, RefTags \o <<"v">>)
    /\ Run(Digit \cup {"."}, TagSuffix(ref), 1) \in 1..(Len(TagSuffix(ref)) - 1)

\* C9: under the default alias rules a release tag resolves to stable and a
\* pre-release tag (refs/tags/v0.1.0rc1) resolves to no alias.
C9_PreReleaseExcluded ==
    (call.op = "_parse_ref" /\ call.done /\ call.rules = ALIAS_RULES) =>
        /\ IsReleaseTag(call.ref) => call.result = Some(Stable)
        /\ IsPreReleaseTag(call.ref) => call.result = None

\* The rules a call of update_aliases works with.
AliasRulesOf(rules) == IF rules.some THEN rules.val ELSE ALIAS_RULES

VersionsOf(d) == {d.versions[i].val : i \in 1..Len(d.versions)}

\* The versions whose ref resolves to the alias name under the rules.
Candidates(d, rules, name) ==
    {v \in VersionsOf(d) : FirstOutput(v.ref, rules) = Some(name)}

\* C2: after update_aliases(rules) every alias name of the mapping is bound
\* to the ref of a version that is greatest, under the Version ordering,
\* among the versions whose ref resolves to that name: no candidate is newer.
C2_NewestWins ==
    call.op = "update_aliases" =>
        \A i \in 1..Len(db.aliases) :
            LET name == db.aliases[i].key
                cand == Candidates(db, AliasRulesOf(call.rules), name)
            IN  \E v \in cand :
                    /\ v.ref = db.aliases[i].val
                    /\ \A w \in cand : ~VersionLess(v, w)

\* An alias with an older candidate added before the version it is bound to
\* and another older candidate added after it.
C2_Witness ==
    /\ call.op = "update_aliases"
    /\ \E i \in 1..Len(db.aliases) :
         \E a, b, c \in 1..Len(db.versions) :
            LET cand == Candidates(db, AliasRulesOf(call.rules),
                                   db.aliases[i].key)
            IN  /\ a < b /\ b < c
                /\ {db.versions[a].val, db.versions[b].val,
                    db.versions[c].val} \subseteq cand
                /\ db.versions[b].key = db.aliases[i].val
                /\ VersionLess(db.versions[a].val, db.versions[b].val)
                /\ VersionLess(db.versions[c].val, db.versions[b].val)

\* The orders in which the versions of the database can have been added.
Reorderings(d) ==
    {[i \in 1..Len(d) |-> d[f[i]]] : f \in Permutations(1..Len(d))}

\* C3: the alias mapping update_aliases produces depends on the set of
\* versions and on the rules alone, not on the order the versions were added
\* in: the same records added in any other order give the same mapping.
C3_InsertionOrderIrrelevant ==
    call.op = "update_aliases" =>
        \A order \in Reorderings(db.versions) :
            Mapping(update_aliases(Database(order, <<>>), call.rules).aliases)
                = Mapping(db.aliases)

\* The alias names the versions produce under the rules.
Produced(d, rules) ==
    {FirstOutput(v.ref, rules).val :
       v \in {w \in VersionsOf(d) : /\ FirstOutput(w.ref, rules).some
                                    /\ FirstOutput(w.ref, rules).val # <<>>}}

\* C4: update_aliases is a full recompute: the mapping it leaves holds the
\* alias names produced in this pass and no other, so that an alias of before
\* that no version produces under the rules is gone.
C4_FullRecompute ==
    call.op = "update_aliases" =>
        /\ Keys(db.aliases) = Produced(db, AliasRulesOf(call.rules))
        /\ \A name \in call.before :
              name \notin Produced(db, AliasRulesOf(call.rules))
                  => name \notin Keys(db.aliases)

\* A call that dropped an alias the mapping held before.
C4_Witness ==
    /\ call.op = "update_aliases"
    /\ call.before \ Keys(db.aliases) # {}
    /\ db.aliases # <<>>

\* C5: add_version is an upsert by ref: the record stored for a ref is the
\* one of the most recent call for that ref, and the database has one entry
\* for each distinct ref added.
C5_Upsert ==
    /\ Mapping(db.versions) = added
    /\ Len(db.versions) = Cardinality({p[1] : p \in added})
    /\ call.op = "add_version" =>
          /\ call.version.ref \in Keys(db.versions)
          /\ Get(db.versions, call.version.ref) = call.version

\* A call that replaced another record stored under the same ref.
C5_Witness ==
    /\ call.op = "add_version"
    /\ call.replaced
    /\ Len(db.versions) >= 2

\* C6: save and then load gives a Database with the same refs, the same
\* fields of the Version of each ref (active = false too) and the same aliases.
C6_RoundTrip ==
    call.op = "load" =>
        /\ Keys(db.versions) = Keys(saved.db.versions)
        /\ \A k \in Keys(db.versions) :
              LET v == Get(db.versions, k)
                  w == Get(saved.db.versions, k)
              IN  /\ v.ref = w.ref /\ v.version = w.version
                  /\ v.name = w.name /\ v.path = w.path
                  /\ v.active = w.active
        /\ Mapping(db.aliases) = Mapping(saved.db.aliases)

\* A load that replaced the database in memory by a saved one with an
\* inactive version and an alias.
C6_Witness ==
    /\ call.op = "load"
    /\ call.changed
    /\ \E v \in VersionsOf(db) : ~v.active
    /\ db.aliases # <<>>

\* C10, as claimed: with main and a release tag in the database,
\* update_aliases() binds latest to refs/heads/main and stable to a tag ref.
C10_LatestAndStable ==
    (/\ call.op = "update_aliases" /\ call.rules = None
     /\ RefMain \in Keys(db.versions)
     /\ \E r \in Keys(db.versions) : IsReleaseTag(r)) =>
        /\ <<Latest, RefMain>> \in Mapping(db.aliases)
        /\ \E r \in Keys(db.versions) :
              /\ StartsWith(r, 1, RefTags)
              /\ <<Stable, r>> \in Mapping(db.aliases)

\* C10, amended: the default rules of update_aliases hold the rule for stable
\* alone: with main and a release tag in the database, update_aliases() binds
\* stable to a tag ref and binds no alias latest.
C10_StableOnly ==
    (/\ call.op = "update_aliases" /\ call.rules = None
     /\ RefMain \in Keys(db.versions)
     /\ \E r \in Keys(db.versions) : IsReleaseTag(r)) =>
        /\ Latest \notin Keys(db.aliases)
        /\ \E r \in Keys(db.versions) :
              /\ StartsWith(r, 1, RefTags)
              /\ <<Stable, r>> \in Mapping(db.aliases)

\* update_aliases() on a database with main and two release tags.
C10_Witness ==
    /\ call.op = "update_aliases" /\ call.rules = None
    /\ RefMain \in Keys(db.versions)
    /\ Cardinality({r \in Keys(db.versions) : IsReleaseTag(r)}) >= 2
    /\ Keys(db.aliases) = {Stable}

\* A ref of the shape refs/<kind>/<rest>: <kind> is the path segment after
\* refs/ and <rest> is all that follows the next slash.
KindLen(ref) == Run(Char \ {"/"}, ref, 6)

HasKindAndRest(ref) ==
    /\ StartsWith(ref, 1, <<"r", "e", "f", "s", "/">>)
    /\ KindLen(ref) >= 1
    /\ 6 + KindLen(ref) < Len(ref)
    /\ ref[6 + KindLen(ref)] = "/"

Rest(ref) == SubSeq(ref, 7 + KindLen(ref), Len(ref))

DefaultParse ==
    /\ call.op = "parse" /\ call.done
    /\ call.version_rules = VERSION_RULES
    /\ call.name_rules = None
    /\ call.path_rules = None

\* C11: with the default version rules a ref refs/<kind>/<rest> parses to
\* name and path <rest>, whole, and version normalize(<rest>), also when
\* <rest> has slashes: refs/heads/feature/x has the name feature/x.
C11_WholeRest ==
    (DefaultParse /\ HasKindAndRest(call.ref)) =>
        /\ call.result.raised = ""
        /\ call.result.value.name = Rest(call.ref)
        /\ call.result.value.path = Rest(call.ref)
        /\ call.result.value.version = normalize_version(Rest(call.ref))

\* A plain release: numbers without leading zeros joined by dots, which
\* normalisation leaves as they are but for the leading v.
RECURSIVE IsPlainRelease(_)
IsPlainRelease(s) ==
    LET n == Run(Digit, s, 1) IN
    /\ n >= 1
    /\ n = 1 \/ s[1] # "0"
    /\ \/ n = Len(s)
       \/ /\ n + 1 < Len(s)
          /\ s[n + 1] = "."
          /\ IsPlainRelease(SubSeq(s, n + 2, Len(s)))

\* C12: the Version parse returns has the ref it was given, the normalised
\* output of the version rules as version, the raw outputs of the name and
\* path rules as name and path, and active = true: refs/tags/v0.1.0 gives
\* version 0.1.0 with name and path v0.1.0, refs/heads/main gives main thrice.
C12_ParsedFields ==
    (call.op = "parse" /\ call.done /\ call.result.raised = "") =>
        LET v   == call.result.value
            out == FirstOutput(call.ref, call.version_rules).val
        IN  /\ v.ref = call.ref
            /\ v.active
            /\ v.name = FirstOutput(call.ref, RulesFor(call.name_rules,
                                                       call.version_rules)).val
            /\ v.path = FirstOutput(call.ref, RulesFor(call.path_rules,
                                                       call.version_rules)).val
            /\ (Head(out) = "v" /\ IsPlainRelease(Tail(out)))
                  => v.version = Tail(out)
            /\ Head(out) \notin Digit \cup {"v"} => v.version = out
            /\ (DefaultParse /\ call.ref = Ref010) =>
                  /\ v.version = <<"0", ".", "1", ".", "0">>
                  /\ v.name = <<"v", "0", ".", "1", ".", "0">>
                  /\ v.path = <<"v", "0", ".", "1", ".", "0">>
            /\ (DefaultParse /\ call.ref = RefMain) =>
                  /\ v.version = <<"m", "a", "i", "n">>
                  /\ v.name = <<"m", "a", "i", "n">>
                  /\ v.path = <<"m", "a", "i", "n">>

\* refs/tags/v0.1.0 parsed with the default rules: the version is normalised
\* and the name is not.
C12_Witness ==
    /\ DefaultParse /\ call.ref = Ref010
    /\ call.result.raised = ""
    /\ call.result.value.version # call.result.value.name
    /\ call.result.value.active

\* Lexicographic order, by the first place where two strings differ.
LexLess(x, y) ==
    LET same == {n \in 0..Min(Len(x), Len(y)) : \A i \in 1..n : x[i] = y[i]}
        p    == CHOOSE n \in same : \A m \in same : m <= n
    IN  IF p = Len(x) THEN p < Len(y)
        ELSE IF p = Len(y) THEN FALSE
        ELSE Ord(x[p + 1]) < Ord(y[p + 1])

\* C20: a == b exactly when the refs are equal, whatever the other fields,
\* and a < b exactly when a.version is below b.version as a string, compared
\* lexicographically and not by number: 0.10.0 is below 0.2.0.
C20_Comparison ==
    (call.op = "compare" /\ call.done) =>
        /\ call.eq <=> call.a.ref = call.b.ref
        /\ call.lt <=> LexLess(call.a.version, call.b.version)
        /\ (/\ call.a.version = <<"0", ".", "1", "0", ".", "0">>
            /\ call.b.version = <<"0", ".", "2", ".", "0">>) => call.lt

\* v0.10.0 found below v0.2.0, the later release of the two.
C20_Witness ==
    /\ call.op = "compare" /\ call.done
    /\ call.a.ref = Ref0100 /\ call.b.ref = Ref020
    /\ call.lt /\ ~call.eq

\* Two records of one ref that differ in another field, found equal.
C20_WitnessEq ==
    /\ call.op = "compare" /\ call.done
    /\ call.a # call.b
    /\ call.eq

\* C19: refs are unique in every state of a Database reached from an empty
\* one or from a loaded snapshot by add_version and update_aliases: every key
\* of the versions mapping is the ref of the record it maps to, and no two
\* entries have the same key.
C19_UniqueRefs ==
    /\ \A i \in 1..Len(db.versions) :
          db.versions[i].key = db.versions[i].val.ref
    /\ \A i, j \in 1..Len(db.versions) :
          db.versions[i].val.ref = db.versions[j].val.ref => i = j

\* A loaded database to which a ref it held was added again, with another
\* record, and that holds other refs beside it.
C19_Witness ==
    /\ call.op = "add_version"
    /\ call.replaced
    /\ call.version.ref \in Keys(saved.db.versions)
    /\ disk.exists
    /\ Len(db.versions) = Cardinality({v.ref : v \in VersionsOf(db)})
    /\ Len(db.versions) >= 2

\* A publish operation is under way, or has just ended.
Publishing == run.op = "copy_source_to_target"

\* The statements the operation has executed so far.
Executed == {run.events[i] : i \in 1..Len(run.events)}

\* The version entries of the snapshot the operation found.
EntriesFound ==
    IF "versions" \in DOMAIN run.before.disk.data
    THEN run.before.disk.data.versions ELSE <<>>

\* C13: a snapshot whose version entries have the four string fields loads
\* also when an entry has no field active, and the Version of such an entry
\* is active.
C13_ActiveDefaultsTrue ==
    (/\ Publishing /\ "load" \in Executed
     /\ run.before.disk.exists /\ run.before.disk.valid
     /\ \A i \in 1..Len(EntriesFound) :
           {"ref", "version", "name", "path"} \subseteq DOMAIN EntriesFound[i])
    => /\ ~(pc = "failed" /\ run.events = <<"parse", "load">>)
       /\ pc = "add" =>
             \A i \in 1..Len(EntriesFound) :
                "active" \notin DOMAIN EntriesFound[i] =>
                    \E v \in VersionsOf(db) :
                        v.ref = EntriesFound[i].ref /\ v.active

\* C14: Databases made without arguments share no state: what add_version
\* does to one leaves the dicts every other Database() is given as they
\* were, empty, and the Database a publish makes when the target has no
\* snapshot has no versions.
C14_NoSharedState ==
    /\ defaults = NoDefaults
    /\ (Publishing /\ pc = "add" /\ ~run.before.disk.exists) =>
          db.versions = <<>>

\* events[i] = e and events[j] = f only for i < j.
Precedes(e, f) ==
    \A i, j \in 1..Len(run.events) :
        (run.events[i] = e /\ run.events[j] = f) => i < j

\* C15, as claimed: the steps of a publish come in the order load, resolve,
\* add, recompute the aliases, save, and then the copies into the version
\* directory and the alias directories: no save after a copy has started.
C15_SaveBeforeCopies ==
    Publishing =>
        /\ Precedes("load", "parse")
        /\ Precedes("parse", "add")
        /\ Precedes("add", "update")
        /\ Precedes("update", "save")
        /\ Precedes("save", "copy")
        /\ Precedes("save", "link")

PublishOrder ==
    <<"parse", "load", "add", "copy", "unlink", "update", "link", "save",
      "inject">>

\* C15, amended: the steps come in the order resolve, load, add, copy into
\* the version directory, remove the old alias directories, recompute the
\* aliases, copy the alias directories, save, inject the menu: the snapshot
\* is saved only after every copy, and an operation that ends well has saved.
C15_CopiesBeforeSave ==
    Publishing =>
        /\ Len(run.events) <= Len(PublishOrder)
        /\ run.events = SubSeq(PublishOrder, 1, Len(run.events))
        /\ "save" \in Executed => {"copy", "link"} \subseteq Executed
        /\ Precedes("copy", "save") /\ Precedes("link", "save")
        /\ pc = "done" => "save" \in Executed

\* An operation that ended well, with its menu, with an alias directory
\* copied, and that replaced the snapshot it had found.
C15_Witness ==
    /\ Publishing /\ pc = "done"
    /\ run.events = PublishOrder
    /\ db.aliases # <<>>
    /\ run.before.disk.exists
    /\ disk # run.before.disk

\* C17: when the snapshot of the target is there and cannot be decoded the
\* operation ends with the decoder's exception at its load: no version is
\* added, no file is copied or removed, and the snapshot stays as it was.
C17_DecodeFailureStops ==
    (/\ Publishing /\ "load" \in Executed
     /\ run.before.disk.exists /\ ~run.before.disk.valid)
    => /\ pc = "failed"
       /\ run.raised = "JSONDecodeError"
       /\ run.events = <<"parse", "load">>
       /\ db.versions = <<>>
       /\ disk = run.before.disk
       /\ tree = run.before.tree

\* A publish into a directory with pages and a snapshot cut short has failed.
C17_Witness ==
    /\ Publishing /\ pc = "failed"
    /\ run.raised = "JSONDecodeError"
    /\ run.before.disk.exists /\ ~run.before.disk.valid
    /\ tree # {}

\* C18: a publish from the command line without --alias-rule recomputes the
\* aliases with the default alias rules: the mapping is the one that
\* update_aliases() without rules gives.
C18_DefaultAliasRules ==
    (/\ Publishing /\ "update" \in Executed
     /\ run.via = "cli" /\ run.alias_rules = Some(<<>>))
    => Mapping(db.aliases) = Mapping(update_aliases(db, None).aliases)

\* The run of main has ended.
Exited == pc = "exited"

ArgumentMissing ==
    ~run.argv.source \/ ~(run.argv.repo \/ run.argv.target)

\* An exception of the kind was raised in the run, caught or not.
Raising(kind) == \E i \in 1..Len(run.errors) : run.errors[i] = kind

\* C21: the command-line run exits with code 0 on success, and with a
\* non-zero code whenever a required argument (source, or one of repo and
\* target) is missing, the ref is invalid (parse raises ValueError), or a
\* git command of the run fails (the git wrapper raises RuntimeError),
\* including while the target repository is initialised or fetched.
C21_ExitCode ==
    Exited =>
      /\ (ArgumentMissing \/ Raising("ValueError") \/ Raising("RuntimeError"))
           => run.exit_code # 0
      /\ (~ArgumentMissing /\ run.errors = <<>>) => run.exit_code = 0

\* The pages in a directory of the target, by their place in it.
DirContent(t, dir) ==
    {[path |-> SubSeq(e.path, Len(dir) + 1, Len(e.path)),
      content |-> e.content] : e \in {x \in t : Under(dir, x.path)}}

\* The path of the version that the saved snapshot has for the ref.
SavedPaths(ref) ==
    {disk.data.versions[i].path :
       i \in {j \in 1..Len(disk.data.versions) :
                disk.data.versions[j].ref = ref}}

\* C23: when a publish operation has completed, for every alias of the saved
\* database the directory of the alias has the same content as the
\* directory of the version it is bound to.
C23_AliasIsCopy ==
    (Publishing /\ pc = "done")
    => \A i \in 1..Len(disk.data.aliases) :
          \A path \in SavedPaths(disk.data.aliases[i].val) :
             DirContent(tree, disk.data.aliases[i].key)
               = DirContent(tree, path)

\* The document has html, head and body.
Complete(html) == html.html /\ html.head.some /\ html.body.some

\* A style element whose text holds the marker.
IsMarkedStyle(tag) ==
    tag.tag = "style" /\ tag.string.some /\ HasMarker(tag.string.val)

Injections(tags) == SelectSeq(tags, IsInjected)

MarkedStyles(tags) == SelectSeq(tags, IsMarkedStyle)

NonInjected(tags) ==
    SelectSeq(tags, LAMBDA tag : ~IsInjected(tag) /\ ~IsMarkedStyle(tag))

Injecting == call.op = "inject_into_html" /\ call.n >= 1

\* C24: after any number of injections with a menu and a style, a document
\* with html, head and body holds exactly one injected menu, last in the
\* body, and exactly one injected style, and its elements that are not
\* injected are those of the source, in their order; a document that lacks
\* html, head or body is returned as it was.
C24_InjectOnce ==
    Injecting =>
      /\ call.raised = ""
      /\ ~Complete(call.source) => call.html = call.source
      /\ Complete(call.source) =>
           /\ NonInjected(call.html.head.val)
                = NonInjected(call.source.head.val)
           /\ NonInjected(call.html.body.val)
                = NonInjected(call.source.body.val)
           /\ (call.version_menu.some /\ Truthy(call.version_style)) =>
                /\ Len(Injections(call.html.head.val \o call.html.body.val))
                     = 1
                /\ IsInjected(call.html.body.val[Len(call.html.body.val)])
                /\ Len(MarkedStyles(call.html.head.val
                                      \o call.html.body.val)) = 1

\* The target directory in which every version of the database has its
\* directory.
DirectoriesOf(d) ==
    {[path |-> v.path, content |-> Source(0, v)] : v \in VersionsOf(d)}

\* C25: in every database reached from the empty one by add_version and
\* update_aliases (saved and loaded in between or not), every alias target
\* is a ref of the versions mapping: database[target] raises no KeyError and
\* gives the record of that ref, and the loop of the publish over the
\* aliases skips none of them.
C25_AliasTargetsPresent ==
    /\ \A i \in 1..Len(db.aliases) :
          /\ db.aliases[i].val \in Keys(db.versions)
          /\ Database_getitem(db, db.aliases[i].val).raised = ""
          /\ Database_getitem(db, db.aliases[i].val).value.ref
               = db.aliases[i].val
    /\ copy_aliases(db, DirectoriesOf(db), 1, {}).skipped = {}

\* A database loaded from its snapshot, with two aliases bound to different
\* versions, to which a version was added after the aliases were computed.
C25_Witness ==
    /\ call.op = "add_version"
    /\ saved.db.aliases # <<>>
    /\ Len(db.aliases) >= 2
    /\ \E i, j \in 1..Len(db.aliases) : db.aliases[i].val # db.aliases[j].val
    /\ Len(db.versions) > Len(saved.db.versions)

\* The statement at which the operation failed.
FailedAt == run.events[Len(run.events)]

FrameKept ==
    /\ call'.op = "update_aliases" =>
          /\ db'.versions = db.versions
          /\ update_aliases(db', call'.rules).aliases = db'.aliases
          /\ update_aliases(db', call'.rules).versions = db.versions
    /\ call'.op = "add_version" =>
          /\ db'.aliases = db.aliases
          /\ Keys(db'.versions) = Keys(db.versions) \cup {call'.version.ref}
          /\ \A ref \in Keys(db.versions) \ {call'.version.ref} :
                Get(db'.versions, ref) = Get(db.versions, ref)

\* C27: update_aliases leaves the versions mapping as it is, and a second
\* call with the same rules right after it leaves the alias mapping as the
\* first call made it; add_version leaves the alias mapping as it is, and
\* the record of every ref other than the one added.
C27_Frame == [][FrameKept]_vars

\* add_version has replaced the record of a ref in a database that holds
\* other refs and aliases, which update_aliases had computed anew from
\* aliases of before.
C27_Witness ==
    /\ call.op = "add_version" /\ call.replaced
    /\ Len(db.versions) >= 2
    /\ db.aliases # <<>>
    /\ saved.db.aliases # <<>>
    /\ Mapping(saved.db.aliases) # Mapping(db.aliases)
====
